---- MODULE Spec2Model ----
(***************************************************************************)
(* The Github credential provider of sidecred (provider/github/github.go): *)
(* Create (access tokens, deploy keys) and Destroy (deploy keys), run by   *)
(* concurrent callers against an App authenticator and a deploy-key        *)
(* registry.  A call advances at its external round trips: token exchange, *)
(* key generation, registry call.  Spec is one caller on a fresh registry, *)
(* SpecConc two callers on a registry that holds a key, SpecRoundTrip the  *)
(* way of a key id through the metadata at the width of an int64, and      *)
(* SpecLambda the handler of the Lambda entry point.                       *)
(***************************************************************************)
EXTENDS Integers, Sequences, FiniteSets, TLC

VARIABLES
    keyRotationInterval,  \* provider.keyRotationInterval, set by New
    options,              \* the options New was given
    calls,                \* per caller: the Create/Destroy invocation in progress
    serial,               \* number of invocations started so far
    registry,             \* the deploy keys registered at the remote registry
    nextID,               \* the id the registry assigns next
    returned,             \* (config, metadata) of every successful deploy-key Create
    destroyed,            \* the returned resources a Destroy has reported destroyed
    roundTrip,            \* a key id on its way from the registry through the
                          \* metadata of Create to the delete of Destroy
    lambda                \* the Lambda handler: the invocation in progress

vars ==
    <<keyRotationInterval, options, calls, serial, registry, nextID, returned,
      destroyed, roundTrip, lambda>>

(***************************************************************************)
(* Bounds of the model.                                                    *)
(***************************************************************************)
NumProcs == 1     \* concurrent callers of one provider instance
MaxCalls == 2     \* invocations started in one run
FirstID == 9      \* the first id the registry assigns

Procs == 1..NumProcs
KeyIDs == FirstID..(FirstID + MaxCalls - 1)

(***************************************************************************)
(* Time: an instant (in hours) and a location, as Go's time.Time.          *)
(***************************************************************************)
Hour == 1
Times == {[t |-> 10, loc |-> "Local"], [t |-> 20, loc |-> "UTC"]}
Add(tm, d) == [tm EXCEPT !.t = @ + d]
UTC(tm) == [tm EXCEPT !.loc = "UTC"]

(***************************************************************************)
(* strconv: decimal strings are sequences of one-character strings.        *)
(***************************************************************************)
Digits == <<"0", "1", "2", "3", "4", "5", "6", "7", "8", "9">>
IsDigit(ch) == \E d \in 1..10 : Digits[d] = ch
DigitVal(ch) == (CHOOSE d \in 1..10 : Digits[d] = ch) - 1

\* The platform int of the build (GOARCH amd64).
IntSize == 64

\* Go's conversion int(x) of an int64: two's-complement truncation to IntSize
\* bits.  Every value of the model fits 32 bits, which an int of 32 bits or more
\* keeps.
ToInt(x) ==
    IF IntSize >= 32 THEN x
    ELSE ((x + 2^(IntSize - 1)) % 2^IntSize) - 2^(IntSize - 1)

RECURSIVE FormatUint(_)
FormatUint(n) ==
    IF n < 10 THEN <<Digits[n + 1]>>
    ELSE FormatUint(n \div 10) \o <<Digits[(n % 10) + 1]>>

\* strconv.Itoa
Itoa(n) == IF n < 0 THEN <<"-">> \o FormatUint(-n) ELSE FormatUint(n)

RECURSIVE StripZeros(_)
StripZeros(s) ==
    IF Len(s) > 1 /\ Head(s) = "0" THEN StripZeros(Tail(s)) ELSE s

\* a > b for two digit strings of the same length
RECURSIVE DigitsGreater(_, _)
DigitsGreater(a, b) ==
    IF a = <<>> THEN FALSE
    ELSE IF DigitVal(Head(a)) # DigitVal(Head(b))
         THEN DigitVal(Head(a)) > DigitVal(Head(b))
         ELSE DigitsGreater(Tail(a), Tail(b))

MaxInt64Digits ==
    <<"9", "2", "2", "3", "3", "7", "2", "0", "3", "6",
      "8", "5", "4", "7", "7", "5", "8", "0", "7">>
MinInt64Digits ==
    <<"9", "2", "2", "3", "3", "7", "2", "0", "3", "6",
      "8", "5", "4", "7", "7", "5", "8", "0", "8">>

\* the magnitude does not fit an int64
OutOfRange64(body, neg) ==
    LET m == StripZeros(body)
        lim == IF neg THEN MinInt64Digits ELSE MaxInt64Digits
    IN  \/ Len(m) > Len(lim)
        \/ Len(m) = Len(lim) /\ DigitsGreater(m, lim)

RECURSIVE DigitsValue(_, _)
DigitsValue(s, acc) ==
    IF s = <<>> THEN acc
    ELSE DigitsValue(Tail(s), acc * 10 + DigitVal(Head(s)))

\* strconv.ParseInt(s, 10, 64): an optional sign, then one or more decimal
\* digits, within the int64 range.
ParseInt(s) ==
    LET signed == s # <<>> /\ Head(s) \in {"+", "-"}
        neg == s # <<>> /\ Head(s) = "-"
        body == IF signed THEN Tail(s) ELSE s
    IN  IF body = <<>> \/ \E i \in 1..Len(body) : ~IsDigit(body[i])
        THEN [n |-> 0, err |-> <<"strconv.ParseInt: invalid syntax">>]
        ELSE IF OutOfRange64(body, neg)
        THEN [n |-> 0, err |-> <<"strconv.ParseInt: value out of range">>]
        ELSE [n |-> IF neg THEN -DigitsValue(body, 0) ELSE DigitsValue(body, 0),
              err |-> <<>>]

(***************************************************************************)
(* The same conversions at the full width of an int64: a value is its four *)
(* 16-bit limbs, least significant first, in two's complement.             *)
(***************************************************************************)
LimbBits == 16
Limb == 2^LimbBits
Limbs == 64 \div LimbBits
ZeroL == [i \in 1..Limbs |-> 0]
IsNegL(x) == x[Limbs] >= Limb \div 2

RECURSIVE IncL(_)
IncL(s) ==
    IF s = <<>> THEN <<>>
    ELSE IF Head(s) = Limb - 1 THEN <<0>> \o IncL(Tail(s))
    ELSE <<Head(s) + 1>> \o Tail(s)

\* -x, and the magnitude of a negative x as an unsigned value
NegL(x) == IncL([i \in 1..Limbs |-> (Limb - 1) - x[i]])

\* the int64 of a value of the model (every one fits 32 bits)
ToL(n) ==
    LET m == IF n < 0 THEN -n ELSE n
        u == [i \in 1..Limbs |->
                 IF i = 1 THEN m % Limb
                 ELSE IF i = 2 THEN (m \div Limb) % Limb
                 ELSE 0]
    IN  IF n < 0 THEN NegL(u) ELSE u

\* the conversion int(x) of a build whose int has 32 bits
ToIntL_int32(x) ==
    LET kept == 32 \div LimbBits
        neg == x[kept] >= Limb \div 2
    IN  [i \in 1..Limbs |->
            IF i <= kept THEN x[i] ELSE IF neg THEN Limb - 1 ELSE 0]

\* Go's conversion int(x) of an int64: the low IntSize bits, sign-extended
ToIntL(x) ==
    LET kept == IntSize \div LimbBits
        neg == x[kept] >= Limb \div 2
    IN  [i \in 1..Limbs |->
            IF i <= kept THEN x[i] ELSE IF neg THEN Limb - 1 ELSE 0]

\* u \div 10 and u % 10 of an unsigned u, from limb i down
RECURSIVE DivMod10L(_, _, _)
DivMod10L(u, i, rem) ==
    IF i = 0 THEN [q |-> <<>>, r |-> rem]
    ELSE LET cur == rem * Limb + u[i]
             low == DivMod10L(u, i - 1, cur % 10)
         IN  [q |-> Append(low.q, cur \div 10), r |-> low.r]

RECURSIVE FormatUintL(_)
FormatUintL(u) ==
    LET d == DivMod10L(u, Limbs, 0)
    IN  IF d.q = ZeroL THEN <<Digits[d.r + 1]>>
        ELSE FormatUintL(d.q) \o <<Digits[d.r + 1]>>

\* strconv.Itoa
ItoaL(x) == IF IsNegL(x) THEN <<"-">> \o FormatUintL(NegL(x)) ELSE FormatUintL(x)

\* u * 10 + carry
RECURSIVE MulAdd10L(_, _)
MulAdd10L(u, carry) ==
    IF u = <<>> THEN <<>>
    ELSE LET cur == Head(u) * 10 + carry
         IN  <<cur % Limb>> \o MulAdd10L(Tail(u), cur \div Limb)

RECURSIVE DigitsValueL(_, _)
DigitsValueL(s, acc) ==
    IF s = <<>> THEN acc
    ELSE DigitsValueL(Tail(s), MulAdd10L(acc, DigitVal(Head(s))))

\* strconv.ParseInt(s, 10, 64)
ParseIntL(s) ==
    LET signed == s # <<>> /\ Head(s) \in {"+", "-"}
        neg == s # <<>> /\ Head(s) = "-"
        body == IF signed THEN Tail(s) ELSE s
    IN  IF body = <<>> \/ \E i \in 1..Len(body) : ~IsDigit(body[i])
        THEN [n |-> ZeroL, err |-> <<"strconv.ParseInt: invalid syntax">>]
        ELSE IF OutOfRange64(body, neg)
        THEN [n |-> ZeroL, err |-> <<"strconv.ParseInt: value out of range">>]
        ELSE [n |-> IF neg THEN NegL(DigitsValueL(body, ZeroL))
                    ELSE DigitsValueL(body, ZeroL),
              err |-> <<>>]

(***************************************************************************)
(* Data: requests, configs, metadata, resources.                           *)
(***************************************************************************)
GithubDeployKey == "github:deploy-key"
GithubAccessToken == "github:access-token"
RequestTypes == {GithubDeployKey, GithubAccessToken, "aws:sts"}

\* A config (opaque bytes): whether the bytes decode as a JSON object with
\* fields of the right types, and the fields, "" for an absent or empty one.
Config(o, r, t, ro) ==
    [valid |-> TRUE, owner |-> o, repository |-> r, title |-> t, read_only |-> ro]
Malformed ==
    [valid |-> FALSE, owner |-> "", repository |-> "", title |-> "",
     read_only |-> FALSE]
Configs ==
    { Malformed,
      Config("acme", "app", "ci", TRUE),
      Config("acme", "lib", "deploy", FALSE),
      Config("", "app", "ci", TRUE) }
Requests == [type : RequestTypes, config : Configs]

\* sidecred.Metadata is a map[string]string behind a pointer: nil, or a set of
\* (key, value) pairs.
NilMetadata == [isNil |-> TRUE, kv |-> {}]
Metadata(kv) == [isNil |-> FALSE, kv |-> kv]
\* Go's map lookup: the empty string for an absent key
Get(m, k) ==
    IF \E e \in m.kv : e[1] = k
    THEN (CHOOSE e \in m.kv : e[1] = k)[2]
    ELSE <<>>
KeyIDStrings == {<<>>, <<"x">>} \cup {Itoa(i) : i \in KeyIDs}
Metadatas ==
    {NilMetadata, Metadata({})}
        \cup {Metadata({<<"key_id", s>>}) : s \in KeyIDStrings}
Resources == [config : Configs, metadata : Metadatas]

DeployKeyRequestConfig(config) ==
    [Owner |-> config.owner, Repository |-> config.repository,
     Title |-> config.title, ReadOnly |-> config.read_only]
AccessTokenRequestConfig(config) == [Owner |-> config.owner]
ZeroConfig == DeployKeyRequestConfig(Malformed)

\* encoding/json.Unmarshal into a DeployKeyRequestConfig: bytes that are not
\* JSON of the struct's shape are an error; an absent field keeps its zero value.
jsonUnmarshal(config) ==
    IF config.valid
    THEN [c |-> DeployKeyRequestConfig(config), err |-> <<>>]
    ELSE [c |-> ZeroConfig, err |-> <<"json: cannot unmarshal">>]

\* sidecred.Request.UnmarshalConfig: decoding fails on a malformed config and on
\* a missing owner.
UnmarshalConfig(request, target) ==
    IF ~request.config.valid \/ request.config.owner = ""
    THEN [c |-> ZeroConfig, err |-> <<"unmarshal request config">>]
    ELSE [c |-> IF target = "AccessTokenRequestConfig"
                THEN AccessTokenRequestConfig(request.config)
                ELSE DeployKeyRequestConfig(request.config),
          err |-> <<>>]

(***************************************************************************)
(* Collaborators: the App authenticator and the deploy-key registry.       *)
(***************************************************************************)
AutomationPermissions ==
    { <<"metadata", "read">>, <<"contents", "read">>,
      <<"pull_requests", "write">>, <<"statuses", "write">> }
AdministratorPermissions ==
    { <<"administration", "write">>, <<"metadata", "read">> }

NoToken == [kind |-> "", owner |-> "", perms |-> {}, n |-> 0]
NoKey == [kind |-> "", n |-> 0]
ZeroTime == [t |-> 0, loc |-> "UTC"]

\* The text of a token or of a private key, as formatting it with %s into a
\* message would give it; distinct secrets have distinct texts.
RECURSIVE Decimal(_)
Decimal(n) ==
    IF n < 10 THEN Digits[n + 1]
    ELSE Decimal(n \div 10) \o Digits[(n % 10) + 1]
Text(v) == v.kind \o "#" \o Decimal(v.n)

\* What the identity provider answers to one exchange.
ExchangeOutcomes ==
    {[ok |-> FALSE, expiration |-> ZeroTime]}
        \cup {[ok |-> TRUE, expiration |-> e] : e \in Times}

\* app.createInstallationToken(owner, permissions): a fresh token scoped to the
\* owner and the permissions, and its expiration, or an error.  The App is
\* installed for no empty owner.
createInstallationToken(owner, perms, n, out) ==
    IF out.ok /\ owner # ""
    THEN [token |-> [kind |-> "token", owner |-> owner, perms |-> perms, n |-> n],
          expiration |-> out.expiration, err |-> <<>>]
    ELSE [token |-> NoToken, expiration |-> ZeroTime,
          err |-> <<"installation token: exchange failed">>]

\* What the registry answers to one registration.
CreateKeyOutcomes ==
    {[ok |-> FALSE, created_at |-> ZeroTime]}
        \cup {[ok |-> TRUE, created_at |-> t] : t \in Times}

\* RepositoriesAPI.CreateKey: registers the key under (owner, repo) with a fresh
\* id and reports id and creation time, or fails and registers nothing.
CreateKeyAPI(reg, id, token, owner, repo, key, out) ==
    IF out.ok
    THEN LET k == [ID |-> id, Owner |-> owner, Repo |-> repo, Key |-> key.Key,
                   Title |-> key.Title, ReadOnly |-> key.ReadOnly,
                   CreatedAt |-> out.created_at]
         IN  [key |-> k, err |-> <<>>, registry |-> reg \cup {k}, nextID |-> id + 1]
    ELSE [key |-> [ID |-> 0, Owner |-> "", Repo |-> "", Key |-> NoKey,
                   Title |-> "", ReadOnly |-> FALSE, CreatedAt |-> ZeroTime],
          err |-> <<"POST keys: 422">>, registry |-> reg, nextID |-> id]

StatusNotFound == 404
NilResponse == [isNil |-> TRUE, StatusCode |-> 0]
Response(code) == [isNil |-> FALSE, StatusCode |-> code]
DeleteKeyOutcomes == {"served", "status-error", "transport-error"}

\* RepositoriesAPI.DeleteKey: a served request removes the key registered under
\* (owner, repo, id), or answers 404 when there is none; a request may also be
\* refused with another status, or fail in transport, where the client returns
\* an error and a nil response.
DeleteKeyAPI(reg, token, owner, repo, id, out) ==
    LET hit == {k \in reg : k.ID = id /\ k.Owner = owner /\ k.Repo = repo}
    IN  CASE out = "served" /\ hit # {} ->
               [resp |-> Response(204), err |-> <<>>, registry |-> reg \ hit]
          [] out = "served" /\ hit = {} ->
               [resp |-> Response(StatusNotFound),
                err |-> <<"DELETE keys: 404 Not Found">>, registry |-> reg]
          [] out = "status-error" ->
               [resp |-> Response(500),
                err |-> <<"DELETE keys: 500">>, registry |-> reg]
          [] OTHER ->
               [resp |-> NilResponse,
                err |-> <<"DELETE keys: connection refused">>, registry |-> reg]

(***************************************************************************)
(* The provider.                                                           *)
(***************************************************************************)
WithDeployKeyRotationInterval(duration) ==
    [option |-> "WithDeployKeyRotationInterval", duration |-> duration]

RECURSIVE ApplyOptions(_, _)
ApplyOptions(p, opts) ==
    IF opts = <<>> THEN p
    ELSE ApplyOptions([p EXCEPT !.keyRotationInterval = Head(opts).duration],
                      Tail(opts))

\* New: the default rotation interval is 7 days; the options run in order.
New(opts) == ApplyOptions([keyRotationInterval |-> Hour * 24 * 7], opts)

OptionLists == {<<>>, <<WithDeployKeyRotationInterval(Hour * 24)>>}

\* One invocation: its position, the function running, its argument, its
\* locals, what it asked of its collaborators so far, and its result.
NoRet == [creds |-> <<>>, metadata |-> NilMetadata, err |-> <<>>]
NoCall ==
    [pc |-> "idle", flow |-> "", n |-> 0,
     arg |-> [type |-> "", config |-> Malformed, metadata |-> NilMetadata],
     c |-> ZeroConfig, keyID |-> 0, adminToken |-> NoToken,
     privateKey |-> NoKey, publicKey |-> NoKey, trace |-> <<>>, ret |-> NoRet]
Start(flow, arg, n) == [NoCall EXCEPT !.flow = flow, !.arg = arg, !.n = n]
Finish(call, ret) == [call EXCEPT !.pc = "done", !.ret = ret]
Failure(err) == [creds |-> <<>>, metadata |-> NilMetadata, err |-> err]
Success(creds, metadata) == [creds |-> creds, metadata |-> metadata, err |-> <<>>]
\* a run-time panic: the invocation ends without a result
Panic(call) == [call EXCEPT !.pc = "panic"]

\* createAccessToken that goes on after a decode error
createAccessToken_ignoreDecodeError(request, n) ==
    LET call == Start("createAccessToken", request, n)
        d == UnmarshalConfig(request, "AccessTokenRequestConfig")
    IN  [call EXCEPT !.pc = "exchange", !.c = d.c]

\* createAccessToken, up to the token exchange
createAccessToken(request, n) ==
    LET call == Start("createAccessToken", request, n)
        d == UnmarshalConfig(request, "AccessTokenRequestConfig")
    IN  IF d.err # <<>> THEN Finish(call, Failure(d.err))
        ELSE [call EXCEPT !.pc = "exchange", !.c = d.c]

\* createAccessToken_exchange that names the credential after the other flow
createAccessToken_exchange_wrongName(call, out) ==
    LET r == createInstallationToken(call.c.Owner, AutomationPermissions,
                                     call.n, out)
        tr == [call EXCEPT !.trace = Append(@,
                  [ev |-> "exchange", owner |-> call.c.Owner,
                   perms |-> AutomationPermissions, token |-> r.token,
                   expiration |-> r.expiration, ok |-> r.err = <<>>])]
    IN  IF r.err # <<>>
        THEN Finish(tr, Failure(<<"create access token: ">> \o r.err))
        ELSE Finish(tr, Success(
                 <<[Name |-> call.c.Owner \o "-deploy-key",
                    Value |-> r.token,
                    Description |-> "Github access token managed by sidecred.",
                    Expiration |-> r.expiration]>>,
                 NilMetadata))

\* createAccessToken_exchange that asks for the administrator profile
createAccessToken_exchange_adminProfile(call, out) ==
    LET r == createInstallationToken(call.c.Owner, AdministratorPermissions,
                                     call.n, out)
        tr == [call EXCEPT !.trace = Append(@,
                  [ev |-> "exchange", owner |-> call.c.Owner,
                   perms |-> AdministratorPermissions, token |-> r.token,
                   expiration |-> r.expiration, ok |-> r.err = <<>>])]
    IN  IF r.err # <<>>
        THEN Finish(tr, Failure(<<"create access token: ">> \o r.err))
        ELSE Finish(tr, Success(
                 <<[Name |-> call.c.Owner \o "-access-token",
                    Value |-> r.token,
                    Description |-> "Github access token managed by sidecred.",
                    Expiration |-> r.expiration]>>,
                 NilMetadata))

\* createAccessToken, from the token exchange to its return
createAccessToken_exchange(call, out) ==
    LET r == createInstallationToken(call.c.Owner, AutomationPermissions,
                                     call.n, out)
        tr == [call EXCEPT !.trace = Append(@,
                  [ev |-> "exchange", owner |-> call.c.Owner,
                   perms |-> AutomationPermissions, token |-> r.token,
                   expiration |-> r.expiration, ok |-> r.err = <<>>])]
    IN  IF r.err # <<>>
        THEN Finish(tr, Failure(<<"create access token: ">> \o r.err))
        ELSE Finish(tr, Success(
                 <<[Name |-> call.c.Owner \o "-access-token",
                    Value |-> r.token,
                    Description |-> "Github access token managed by sidecred.",
                    Expiration |-> r.expiration]>>,
                 NilMetadata))

\* createDeployKey, up to the token exchange
createDeployKey(request, n) ==
    LET call == Start("createDeployKey", request, n)
        d == UnmarshalConfig(request, "DeployKeyRequestConfig")
    IN  IF d.err # <<>> THEN Finish(call, Failure(d.err))
        ELSE [call EXCEPT !.pc = "exchange", !.c = d.c]

\* createDeployKey_exchange that goes on after a failed exchange
createDeployKey_exchange_ignoreError(call, out) ==
    LET r == createInstallationToken(call.c.Owner, AdministratorPermissions,
                                     call.n, out)
        tr == [call EXCEPT !.trace = Append(@,
                  [ev |-> "exchange", owner |-> call.c.Owner,
                   perms |-> AdministratorPermissions, token |-> r.token,
                   expiration |-> r.expiration, ok |-> r.err = <<>>])]
    IN  [tr EXCEPT !.pc = "keygen", !.adminToken = r.token]

\* createDeployKey, from the token exchange to the key generation
createDeployKey_exchange(call, out) ==
    LET r == createInstallationToken(call.c.Owner, AdministratorPermissions,
                                     call.n, out)
        tr == [call EXCEPT !.trace = Append(@,
                  [ev |-> "exchange", owner |-> call.c.Owner,
                   perms |-> AdministratorPermissions, token |-> r.token,
                   expiration |-> r.expiration, ok |-> r.err = <<>>])]
    IN  IF r.err # <<>>
        THEN Finish(tr, Failure(<<"create administrator access token: ">> \o r.err))
        ELSE [tr EXCEPT !.pc = "keygen", !.adminToken = r.token]

KeyGenOutcomes == {"ok", "rsa.GenerateKey", "ssh.NewPublicKey"}

\* generateKeyPair: a fresh pair, the PEM private key and the authorized-key
\* line of its public half, or the error of either step.
generateKeyPair(n, out) ==
    IF out = "rsa.GenerateKey"
    THEN [privateKey |-> NoKey, publicKey |-> NoKey, err |-> <<"rsa: no entropy">>]
    ELSE IF out = "ssh.NewPublicKey"
    THEN [privateKey |-> NoKey, publicKey |-> NoKey, err |-> <<"ssh: bad key">>]
    ELSE [privateKey |-> [kind |-> "RSA PRIVATE KEY", n |-> n],
          publicKey |-> [kind |-> "ssh-rsa", n |-> n], err |-> <<>>]

\* createDeployKey_keygen that numbers its key pair from a counter all
\* invocations share
createDeployKey_keygen_sharedCounter(call, out) ==
    LET r == generateKeyPair(serial, out)
        tr == [call EXCEPT !.trace = Append(@,
                  [ev |-> "keygen", ok |-> r.err = <<>>, err |-> r.err])]
    IN  IF r.err # <<>>
        THEN Finish(tr, Failure(<<"generate key pair: ">> \o r.err))
        ELSE [tr EXCEPT !.pc = "register", !.privateKey = r.privateKey,
                        !.publicKey = r.publicKey]

\* createDeployKey, from the key generation to the registration
createDeployKey_keygen(call, out) ==
    LET r == generateKeyPair(call.n, out)
        tr == [call EXCEPT !.trace = Append(@,
                  [ev |-> "keygen", ok |-> r.err = <<>>, err |-> r.err])]
    IN  IF r.err # <<>>
        THEN Finish(tr, Failure(<<"generate key pair: ">> \o r.err))
        ELSE [tr EXCEPT !.pc = "register", !.privateKey = r.privateKey,
                        !.publicKey = r.publicKey]

\* createDeployKey_register that leaves the rotation interval out of the expiration
createDeployKey_register_noInterval(call, interval, reg, id, out) ==
    LET key == [Key |-> call.publicKey, Title |-> call.c.Title,
                ReadOnly |-> call.c.ReadOnly]
        r == CreateKeyAPI(reg, id, call.adminToken, call.c.Owner,
                          call.c.Repository, key, out)
        tr == [call EXCEPT !.trace = Append(@,
                  [ev |-> "CreateKey", token |-> call.adminToken,
                   owner |-> call.c.Owner, repo |-> call.c.Repository,
                   key |-> key, id |-> r.key.ID, created_at |-> r.key.CreatedAt,
                   ok |-> r.err = <<>>])]
        metadata == Metadata({<<"key_id", Itoa(ToInt(r.key.ID))>>})
    IN  [registry |-> r.registry, nextID |-> r.nextID,
         call |-> IF r.err # <<>>
                  THEN Finish(tr, Failure(<<"create deploy key: ">> \o r.err))
                  ELSE Finish(tr, Success(
                           <<[Name |-> call.c.Repository \o "-deploy-key",
                              Value |-> call.privateKey,
                              Description |-> "Github deploy key managed by sidecred.",
                              Expiration |-> UTC(r.key.CreatedAt)]>>,
                           metadata))]

\* createDeployKey_register whose error names the token it registered with
createDeployKey_register_tokenInError(call, interval, reg, id, out) ==
    LET key == [Key |-> call.publicKey, Title |-> call.c.Title,
                ReadOnly |-> call.c.ReadOnly]
        r == CreateKeyAPI(reg, id, call.adminToken, call.c.Owner,
                          call.c.Repository, key, out)
        tr == [call EXCEPT !.trace = Append(@,
                  [ev |-> "CreateKey", token |-> call.adminToken,
                   owner |-> call.c.Owner, repo |-> call.c.Repository,
                   key |-> key, id |-> r.key.ID, created_at |-> r.key.CreatedAt,
                   ok |-> r.err = <<>>])]
        metadata == Metadata({<<"key_id", Itoa(ToInt(r.key.ID))>>})
    IN  [registry |-> r.registry, nextID |-> r.nextID,
         call |-> IF r.err # <<>>
                  THEN Finish(tr, Failure(<<"create deploy key with ",
                                            Text(call.adminToken), ": ">> \o r.err))
                  ELSE Finish(tr, Success(
                           <<[Name |-> call.c.Repository \o "-deploy-key",
                              Value |-> call.privateKey,
                              Description |-> "Github deploy key managed by sidecred.",
                              Expiration |-> UTC(Add(r.key.CreatedAt, interval))]>>,
                           metadata))]

\* createDeployKey_register that returns the credential without the metadata
createDeployKey_register_noMetadata(call, interval, reg, id, out) ==
    LET key == [Key |-> call.publicKey, Title |-> call.c.Title,
                ReadOnly |-> call.c.ReadOnly]
        r == CreateKeyAPI(reg, id, call.adminToken, call.c.Owner,
                          call.c.Repository, key, out)
        tr == [call EXCEPT !.trace = Append(@,
                  [ev |-> "CreateKey", token |-> call.adminToken,
                   owner |-> call.c.Owner, repo |-> call.c.Repository,
                   key |-> key, id |-> r.key.ID, created_at |-> r.key.CreatedAt,
                   ok |-> r.err = <<>>])]
    IN  [registry |-> r.registry, nextID |-> r.nextID,
         call |-> IF r.err # <<>>
                  THEN Finish(tr, Failure(<<"create deploy key: ">> \o r.err))
                  ELSE Finish(tr, Success(
                           <<[Name |-> call.c.Repository \o "-deploy-key",
                              Value |-> call.privateKey,
                              Description |-> "Github deploy key managed by sidecred.",
                              Expiration |-> UTC(Add(r.key.CreatedAt, interval))]>>,
                           NilMetadata))]

\* createDeployKey, from the registration to its return; with the registry after it
createDeployKey_register(call, interval, reg, id, out) ==
    LET key == [Key |-> call.publicKey, Title |-> call.c.Title,
                ReadOnly |-> call.c.ReadOnly]
        r == CreateKeyAPI(reg, id, call.adminToken, call.c.Owner,
                          call.c.Repository, key, out)
        tr == [call EXCEPT !.trace = Append(@,
                  [ev |-> "CreateKey", token |-> call.adminToken,
                   owner |-> call.c.Owner, repo |-> call.c.Repository,
                   key |-> key, id |-> r.key.ID, created_at |-> r.key.CreatedAt,
                   ok |-> r.err = <<>>])]
        metadata == Metadata({<<"key_id", Itoa(ToInt(r.key.ID))>>})
    IN  [registry |-> r.registry, nextID |-> r.nextID,
         call |-> IF r.err # <<>>
                  THEN Finish(tr, Failure(<<"create deploy key: ">> \o r.err))
                  ELSE Finish(tr, Success(
                           <<[Name |-> call.c.Repository \o "-deploy-key",
                              Value |-> call.privateKey,
                              Description |-> "Github deploy key managed by sidecred.",
                              Expiration |-> UTC(Add(r.key.CreatedAt, interval))]>>,
                           metadata))]

\* Create that takes every other type for an access-token request
Create_defaultAccessToken(request, n) ==
    CASE request.type = GithubDeployKey -> createDeployKey(request, n)
      [] OTHER -> createAccessToken(request, n)

\* Create: dispatch on the request type
Create(request, n) ==
    CASE request.type = GithubDeployKey -> createDeployKey(request, n)
      [] request.type = GithubAccessToken -> createAccessToken(request, n)
      [] OTHER -> Finish(Start("Create", request, n),
                         Failure(<<"invalid request: ", request.type>>))

\* Destroy that parses key_id without first testing it for emptiness
Destroy_noEmptyCheck(resource, n) ==
    LET call == Start("Destroy", resource, n)
        d == jsonUnmarshal(resource.config)
        s == Get(resource.metadata, "key_id")
        parsed == ParseInt(s)
    IN  IF d.err # <<>>
        THEN Finish(call, Failure(<<"unmarshal resource config: ">> \o d.err))
        ELSE IF parsed.err # <<>>
        THEN Finish(call, Failure(<<"failed to convert key id (">> \o s
                                      \o <<") to int: ">> \o parsed.err))
        ELSE [call EXCEPT !.pc = "exchange", !.c = d.c, !.keyID = parsed.n]

\* Destroy that takes a key_id it cannot parse for nothing to remove
Destroy_ignoreParseError(resource, n) ==
    LET call == Start("Destroy", resource, n)
        d == jsonUnmarshal(resource.config)
        s == Get(resource.metadata, "key_id")
        parsed == ParseInt(s)
    IN  IF d.err # <<>>
        THEN Finish(call, Failure(<<"unmarshal resource config: ">> \o d.err))
        ELSE IF resource.metadata.isNil THEN Finish(call, NoRet)
        ELSE IF s = <<>> THEN Finish(call, NoRet)
        ELSE IF parsed.err # <<>> THEN Finish(call, NoRet)
        ELSE [call EXCEPT !.pc = "exchange", !.c = d.c, !.keyID = parsed.n]

\* Destroy, up to the token exchange
Destroy(resource, n) ==
    LET call == Start("Destroy", resource, n)
        d == jsonUnmarshal(resource.config)
        s == Get(resource.metadata, "key_id")
        parsed == ParseInt(s)
    IN  IF d.err # <<>>
        THEN Finish(call, Failure(<<"unmarshal resource config: ">> \o d.err))
        ELSE IF resource.metadata.isNil THEN Finish(call, NoRet)
        ELSE IF s = <<>> THEN Finish(call, NoRet)
        ELSE IF parsed.err # <<>>
        THEN Finish(call, Failure(<<"failed to convert key id (">> \o s
                                      \o <<") to int: ">> \o parsed.err))
        ELSE [call EXCEPT !.pc = "exchange", !.c = d.c, !.keyID = parsed.n]

\* Destroy_exchange that asks again when the exchange fails
Destroy_exchange_retry(call, out) ==
    LET r == createInstallationToken(call.c.Owner, AdministratorPermissions,
                                     call.n, out)
        tr == [call EXCEPT !.trace = Append(@,
                  [ev |-> "exchange", owner |-> call.c.Owner,
                   perms |-> AdministratorPermissions, token |-> r.token,
                   expiration |-> r.expiration, ok |-> r.err = <<>>])]
    IN  IF r.err # <<>>
        THEN tr
        ELSE [tr EXCEPT !.pc = "delete", !.adminToken = r.token]

\* Destroy, from the token exchange to the delete
Destroy_exchange(call, out) ==
    LET r == createInstallationToken(call.c.Owner, AdministratorPermissions,
                                     call.n, out)
        tr == [call EXCEPT !.trace = Append(@,
                  [ev |-> "exchange", owner |-> call.c.Owner,
                   perms |-> AdministratorPermissions, token |-> r.token,
                   expiration |-> r.expiration, ok |-> r.err = <<>>])]
    IN  IF r.err # <<>>
        THEN Finish(tr, Failure(<<"create administrator access token: ">> \o r.err))
        ELSE [tr EXCEPT !.pc = "delete", !.adminToken = r.token]

\* Destroy_delete without the exemption of 404
Destroy_delete_no404(call, reg, out) ==
    LET r == DeleteKeyAPI(reg, call.adminToken, call.c.Owner, call.c.Repository,
                          call.keyID, out)
        tr == [call EXCEPT !.trace = Append(@,
                  [ev |-> "DeleteKey", token |-> call.adminToken,
                   owner |-> call.c.Owner, repo |-> call.c.Repository,
                   id |-> call.keyID, resp |-> r.resp, failed |-> r.err # <<>>])]
    IN  [registry |-> r.registry,
         call |-> IF r.err # <<>> /\ r.resp.isNil THEN Panic(tr)
                  ELSE IF r.err # <<>>
                  THEN Finish(tr, Failure(<<"delete deploy key: ">> \o r.err))
                  ELSE Finish(tr, NoRet)]

\* Destroy_delete that exempts every answered delete, not only 404
Destroy_delete_anyStatus(call, reg, out) ==
    LET r == DeleteKeyAPI(reg, call.adminToken, call.c.Owner, call.c.Repository,
                          call.keyID, out)
        tr == [call EXCEPT !.trace = Append(@,
                  [ev |-> "DeleteKey", token |-> call.adminToken,
                   owner |-> call.c.Owner, repo |-> call.c.Repository,
                   id |-> call.keyID, resp |-> r.resp, failed |-> r.err # <<>>])]
    IN  [registry |-> r.registry,
         call |-> IF r.err # <<>> /\ r.resp.isNil THEN Panic(tr)
                  ELSE Finish(tr, NoRet)]

\* Destroy, from the delete to its return; with the registry after it.
\* resp.StatusCode is read whenever err is not nil: with a nil resp that is a
\* nil pointer dereference.
Destroy_delete(call, reg, out) ==
    LET r == DeleteKeyAPI(reg, call.adminToken, call.c.Owner, call.c.Repository,
                          call.keyID, out)
        tr == [call EXCEPT !.trace = Append(@,
                  [ev |-> "DeleteKey", token |-> call.adminToken,
                   owner |-> call.c.Owner, repo |-> call.c.Repository,
                   id |-> call.keyID, resp |-> r.resp, failed |-> r.err # <<>>])]
    IN  [registry |-> r.registry,
         call |-> IF r.err # <<>> /\ r.resp.isNil THEN Panic(tr)
                  ELSE IF r.err # <<>> /\ r.resp.StatusCode # StatusNotFound
                  THEN Finish(tr, Failure(<<"delete deploy key: ">> \o r.err))
                  ELSE Finish(tr, NoRet)]

(***************************************************************************)
(* The state machine.                                                      *)
(***************************************************************************)
(***************************************************************************)
(* The Lambda entry point (cmd/sidecred-lambda): the handler runFunc gives  *)
(* to lambda.Start.  Its collaborators (S3, the state backend, Process) are *)
(* what they answer.                                                       *)
(***************************************************************************)
MaxInvocations == 3     \* events one Lambda process handles

configBucket == "config-bucket"
LambdaEvents ==
    { [Namespace |-> "team-a", ConfigPath |-> "a/config.json",
       StatePath |-> "a/state.json"],
      [Namespace |-> "team-b", ConfigPath |-> "b/config.json",
       StatePath |-> "b/state.json"] }
NoEvent == [Namespace |-> "", ConfigPath |-> "", StatePath |-> ""]

\* a *sidecred.State: the object and what it holds
NoState == [isNil |-> TRUE, path |-> "", version |-> 0]
NoHandler ==
    [pc |-> "idle", count |-> 0, event |-> NoEvent, requests |-> <<>>,
     state |-> NoState, deferred |-> <<>>, err |-> <<>>, panicking |-> FALSE,
     log |-> <<>>, result |-> <<>>]

\* loadConfig: the requests of the object at (bucket, key), or the error of
\* the session, of the download, of the copy or of the decoding
LoadConfigOutcomes ==
    {"ok", "session.NewSession", "GetObject", "io.Copy", "json.Unmarshal"}
loadConfig(bucket, key, out) ==
    CASE out = "session.NewSession" ->
             [requests |-> <<>>, err |-> <<"session: no credentials">>]
      [] out = "GetObject" ->
             [requests |-> <<>>, err |-> <<"NoSuchKey: ", bucket, "/", key>>]
      [] out = "io.Copy" ->
             [requests |-> <<>>, err |-> <<"unexpected EOF">>]
      [] out = "json.Unmarshal" ->
             [requests |-> <<>>, err |-> <<"invalid character">>]
      [] OTHER ->
             [requests |-> <<[type |-> GithubDeployKey, name |-> key]>>,
              err |-> <<>>]

\* backend.Load(path)
LoadOutcomes == {"ok", "error"}
BackendLoad(path, out) ==
    IF out = "ok"
    THEN [state |-> [isNil |-> FALSE, path |-> path, version |-> 0], err |-> <<>>]
    ELSE [state |-> NoState, err |-> <<"load state: ", path>>]

\* s.Process(namespace, requests, state): works on the state it is given and
\* returns an error or none, or panics (as Destroy can)
ProcessOutcomes ==
    [kind : {"nil", "error", "panic"}, changed : BOOLEAN]
Process(namespace, requests, state, out) ==
    [state |-> IF out.changed THEN [state EXCEPT !.version = @ + 1] ELSE state,
     err |-> IF out.kind = "error" THEN <<"process ", namespace>> ELSE <<>>,
     panic |-> out.kind = "panic"]

\* backend.Save(path, state)
SaveOutcomes == {"ok", "error"}
BackendSave(path, state, out) ==
    IF out = "ok" THEN <<>> ELSE <<"save state: ", path>>

\* the handler is given an event
handler(event, count) ==
    [NoHandler EXCEPT !.pc = "loadConfig", !.count = count, !.event = event]

\* the handler, from loadConfig to backend.Load
handler_loadConfig(h, out) ==
    LET r == loadConfig(configBucket, h.event.ConfigPath, out)
        lg == [h EXCEPT !.log = Append(@,
                  [step |-> "loadConfig", arg |-> h.event.ConfigPath,
                   state |-> NoState, err |-> r.err])]
    IN  IF r.err # <<>>
        THEN [lg EXCEPT !.pc = "returned", !.result = r.err]
        ELSE [lg EXCEPT !.pc = "Load", !.requests = r.requests]

\* the handler, from backend.Load to Process; the Save is deferred with its
\* arguments: the path and the state object
handler_Load(h, out) ==
    LET r == BackendLoad(h.event.StatePath, out)
        lg == [h EXCEPT !.log = Append(@,
                  [step |-> "Load", arg |-> h.event.StatePath,
                   state |-> r.state, err |-> r.err])]
    IN  IF r.err # <<>>
        THEN [lg EXCEPT !.pc = "returned", !.result = r.err]
        ELSE [lg EXCEPT !.pc = "Process", !.state = r.state,
                        !.deferred = <<[fn |-> "Save", path |-> h.event.StatePath]>>]

\* handler_Process that returns the error of Process without running the
\* deferred Save
handler_Process_noSaveOnError(h, out) ==
    LET r == Process(h.event.Namespace, h.requests, h.state, out)
        lg == [h EXCEPT !.log = Append(@,
                  [step |-> "Process", arg |-> h.event.Namespace,
                   state |-> r.state, err |-> r.err]),
                        !.state = r.state]
    IN  IF r.err # <<>> THEN [lg EXCEPT !.pc = "returned", !.result = r.err]
        ELSE [lg EXCEPT !.pc = "deferred", !.err = r.err, !.panicking = r.panic]

\* the handler, from Process to its return statement: the value to return is
\* the error of Process, and the deferred calls are next
handler_Process(h, out) ==
    LET r == Process(h.event.Namespace, h.requests, h.state, out)
        lg == [h EXCEPT !.log = Append(@,
                  [step |-> "Process", arg |-> h.event.Namespace,
                   state |-> r.state, err |-> r.err]),
                        !.state = r.state]
    IN  [lg EXCEPT !.pc = "deferred", !.err = r.err, !.panicking = r.panic]

\* the deferred Save runs, its result is dropped, and the handler returns
\* (or goes on panicking)
handler_deferred(h, out) ==
    LET d == Head(h.deferred)
        e == BackendSave(d.path, h.state, out)
        lg == [h EXCEPT !.log = Append(@,
                  [step |-> d.fn, arg |-> d.path, state |-> h.state, err |-> e]),
                        !.deferred = Tail(@)]
    IN  IF h.panicking THEN [lg EXCEPT !.pc = "panicked"]
        ELSE [lg EXCEPT !.pc = "returned", !.result = h.err]

\* no key id under way
NoRoundTrip ==
    [pc |-> "none", id |-> ZeroL, key_id |-> <<>>,
     parsed |-> [n |-> ZeroL, err |-> <<>>]]

Init ==
    /\ options \in OptionLists
    /\ keyRotationInterval = New(options).keyRotationInterval
    /\ calls = [p \in Procs |-> NoCall]
    /\ serial = 0
    /\ registry = {}
    /\ nextID = FirstID
    /\ returned = {}
    /\ destroyed = {}
    /\ roundTrip = NoRoundTrip
    /\ lambda = NoHandler

\* a panic ends the process: nothing runs after it
Running == \A p \in DOMAIN calls : calls[p].pc # "panic"

\* A caller invokes Create.
CallCreate(p) ==
    /\ Running /\ calls[p].pc = "idle" /\ serial < MaxCalls
    /\ \E request \in Requests :
           calls' = [calls EXCEPT ![p] = Create(request, serial + 1)]
    /\ serial' = serial + 1
    /\ UNCHANGED <<lambda, roundTrip, keyRotationInterval, options, registry, nextID, returned, destroyed>>

\* A caller invokes Destroy.
CallDestroy(p) ==
    /\ Running /\ calls[p].pc = "idle" /\ serial < MaxCalls
    /\ \E resource \in Resources :
           calls' = [calls EXCEPT ![p] = Destroy(resource, serial + 1)]
    /\ serial' = serial + 1
    /\ UNCHANGED <<lambda, roundTrip, keyRotationInterval, options, registry, nextID, returned, destroyed>>

\* The identity provider answers the invocation's token exchange.
TokenExchange(p) ==
    /\ Running /\ calls[p].pc = "exchange"
    /\ \E out \in ExchangeOutcomes :
           calls' = [calls EXCEPT ![p] =
               CASE calls[p].flow = "createAccessToken" ->
                        createAccessToken_exchange(calls[p], out)
                 [] calls[p].flow = "createDeployKey" ->
                        createDeployKey_exchange(calls[p], out)
                 [] OTHER -> Destroy_exchange(calls[p], out)]
    /\ UNCHANGED <<lambda, roundTrip, keyRotationInterval, options, serial, registry, nextID, returned,
                   destroyed>>

\* The invocation generates its key pair.
KeyGen(p) ==
    /\ Running /\ calls[p].pc = "keygen"
    /\ \E out \in KeyGenOutcomes :
           calls' = [calls EXCEPT ![p] = createDeployKey_keygen(calls[p], out)]
    /\ UNCHANGED <<lambda, roundTrip, keyRotationInterval, options, serial, registry, nextID, returned,
                   destroyed>>

\* The registry answers the invocation's registration.
RegisterKey(p) ==
    /\ Running /\ calls[p].pc = "register"
    /\ \E out \in CreateKeyOutcomes :
           LET r == createDeployKey_register(calls[p], keyRotationInterval,
                                             registry, nextID, out)
           IN  /\ calls' = [calls EXCEPT ![p] = r.call]
               /\ registry' = r.registry
               /\ nextID' = r.nextID
               /\ returned' =
                      IF r.call.ret.err = <<>>
                      THEN returned \cup {[config |-> calls[p].arg.config,
                                           metadata |-> r.call.ret.metadata]}
                      ELSE returned
    /\ UNCHANGED <<lambda, roundTrip, keyRotationInterval, options, serial, destroyed>>

\* The registry answers the invocation's delete.
DeleteKey(p) ==
    /\ Running /\ calls[p].pc = "delete"
    /\ \E out \in DeleteKeyOutcomes :
           LET r == Destroy_delete(calls[p], registry, out)
           IN  /\ calls' = [calls EXCEPT ![p] = r.call]
               /\ registry' = r.registry
               /\ destroyed' =
                      IF /\ r.call.pc = "done" /\ r.call.ret.err = <<>>
                         /\ \E x \in returned :
                                x.metadata = calls[p].arg.metadata
                      THEN destroyed \cup {calls[p].arg}
                      ELSE destroyed
    /\ UNCHANGED <<lambda, roundTrip, keyRotationInterval, options, serial, nextID, returned>>

\* The caller takes the result of its finished invocation.
Return(p) ==
    /\ Running /\ calls[p].pc = "done"
    /\ calls' = [calls EXCEPT ![p] = NoCall]
    /\ UNCHANGED <<lambda, roundTrip, keyRotationInterval, options, serial, registry, nextID, returned,
                   destroyed>>

Next ==
    \E p \in Procs :
        \/ CallCreate(p)
        \/ CallDestroy(p)
        \/ TokenExchange(p)
        \/ KeyGen(p)
        \/ RegisterKey(p)
        \/ DeleteKey(p)
        \/ Return(p)

Spec == Init /\ [][Next]_vars

(***************************************************************************)
(* Two callers on one provider, whose registry holds a key an earlier run   *)
(* of the program registered: the registry outlives the process.           *)
(***************************************************************************)
Callers == {"c1", "c2"}

\* the earlier run: a deploy-key Create that succeeded
PriorRequest ==
    [type |-> GithubDeployKey, config |-> Config("acme", "app", "ci", TRUE)]
PriorRun ==
    LET c1 == createDeployKey_exchange(
                  createDeployKey(PriorRequest, 0),
                  [ok |-> TRUE, expiration |-> [t |-> 20, loc |-> "UTC"]])
        c2 == createDeployKey_keygen(c1, "ok")
    IN  createDeployKey_register(c2, New(<<>>).keyRotationInterval, {}, FirstID,
                                 [ok |-> TRUE,
                                  created_at |-> [t |-> 10, loc |-> "Local"]])
PriorResource ==
    [config |-> PriorRequest.config, metadata |-> PriorRun.call.ret.metadata]

InitConc ==
    /\ options = <<WithDeployKeyRotationInterval(Hour * 24)>>
    /\ keyRotationInterval = New(options).keyRotationInterval
    /\ calls = [p \in Callers |-> NoCall]
    /\ serial = 0
    /\ registry = PriorRun.registry
    /\ nextID = PriorRun.nextID
    /\ returned = {PriorResource}
    /\ destroyed = {}
    /\ roundTrip = NoRoundTrip
    /\ lambda = NoHandler

NextConc ==
    \E p \in Callers :
        \/ CallCreate(p)
        \/ CallDestroy(p)
        \/ TokenExchange(p)
        \/ KeyGen(p)
        \/ RegisterKey(p)
        \/ DeleteKey(p)
        \/ Return(p)

SpecConc == InitConc /\ [][NextConc]_vars

(***************************************************************************)
(* The way of one key id: the registry assigns it, createDeployKey writes   *)
(* it into the metadata, Destroy reads it back for the delete.             *)
(***************************************************************************)
\* ids the registry can assign: positive int64, small ones, ones around the
\* 32-bit border and beyond it, up to the largest
AssignableIDs ==
    { <<l1, l2, l3, l4>> :
          l1 \in {0, 1, 9, 65535}, l2 \in {0, 32767, 32768, 65535},
          l3 \in {0, 1, 65535}, l4 \in {0, 1, 32767} } \ {ZeroL}

InitRoundTrip ==
    /\ options \in OptionLists
    /\ keyRotationInterval = New(options).keyRotationInterval
    /\ calls = [p \in Procs |-> NoCall]
    /\ serial = 0
    /\ registry = {}
    /\ nextID = FirstID
    /\ returned = {}
    /\ destroyed = {}
    /\ lambda = NoHandler
    /\ \E id \in AssignableIDs :
           roundTrip = [NoRoundTrip EXCEPT !.pc = "assigned", !.id = id]

\* createDeployKey writes the id of the registered key into the metadata.
WriteKeyID ==
    /\ roundTrip.pc = "assigned"
    /\ roundTrip' = [roundTrip EXCEPT !.pc = "written",
                                      !.key_id = ItoaL(ToIntL(roundTrip.id))]
    /\ UNCHANGED <<lambda, keyRotationInterval, options, calls, serial, registry,
                   nextID, returned, destroyed>>

\* Destroy reads the key_id of the metadata back: nothing to do for an empty
\* one, else the id to delete or the error of the parse.
ParseKeyID ==
    /\ roundTrip.pc = "written"
    /\ roundTrip' =
           IF roundTrip.key_id = <<>>
           THEN [roundTrip EXCEPT !.pc = "skipped"]
           ELSE [roundTrip EXCEPT !.pc = "parsed",
                                  !.parsed = ParseIntL(roundTrip.key_id)]
    /\ UNCHANGED <<lambda, keyRotationInterval, options, calls, serial, registry,
                   nextID, returned, destroyed>>

NextRoundTrip == WriteKeyID \/ ParseKeyID

SpecRoundTrip == InitRoundTrip /\ [][NextRoundTrip]_vars

(***************************************************************************)
(* The Lambda process: lambda.Start hands the handler one event at a time.  *)
(***************************************************************************)
InitLambda ==
    /\ options = <<>>
    /\ keyRotationInterval = New(options).keyRotationInterval
    /\ calls = [p \in Procs |-> NoCall]
    /\ serial = 0
    /\ registry = {}
    /\ nextID = FirstID
    /\ returned = {}
    /\ destroyed = {}
    /\ roundTrip = NoRoundTrip
    /\ lambda = NoHandler

\* The runtime invokes the handler with an event.
Invoke ==
    /\ lambda.pc = "idle" /\ lambda.count < MaxInvocations
    /\ \E event \in LambdaEvents : lambda' = handler(event, lambda.count + 1)
    /\ UNCHANGED <<roundTrip, keyRotationInterval, options, calls, serial, registry,
                   nextID, returned, destroyed>>

LoadConfig ==
    /\ lambda.pc = "loadConfig"
    /\ \E out \in LoadConfigOutcomes : lambda' = handler_loadConfig(lambda, out)
    /\ UNCHANGED <<roundTrip, keyRotationInterval, options, calls, serial, registry,
                   nextID, returned, destroyed>>

LoadState ==
    /\ lambda.pc = "Load"
    /\ \E out \in LoadOutcomes : lambda' = handler_Load(lambda, out)
    /\ UNCHANGED <<roundTrip, keyRotationInterval, options, calls, serial, registry,
                   nextID, returned, destroyed>>

RunProcess ==
    /\ lambda.pc = "Process"
    /\ \E out \in ProcessOutcomes : lambda' = handler_Process(lambda, out)
    /\ UNCHANGED <<roundTrip, keyRotationInterval, options, calls, serial, registry,
                   nextID, returned, destroyed>>

RunDeferred ==
    /\ lambda.pc = "deferred"
    /\ \E out \in SaveOutcomes : lambda' = handler_deferred(lambda, out)
    /\ UNCHANGED <<roundTrip, keyRotationInterval, options, calls, serial, registry,
                   nextID, returned, destroyed>>

\* The runtime takes the handler's result and waits for the next event.
Respond ==
    /\ lambda.pc = "returned"
    /\ lambda' = [NoHandler EXCEPT !.count = lambda.count]
    /\ UNCHANGED <<roundTrip, keyRotationInterval, options, calls, serial, registry,
                   nextID, returned, destroyed>>

NextLambda ==
    \/ Invoke
    \/ LoadConfig
    \/ LoadState
    \/ RunProcess
    \/ RunDeferred
    \/ Respond

SpecLambda == InitLambda /\ [][NextLambda]_vars

(***************************************************************************)
(* Properties.                                                             *)
(***************************************************************************)
\* what an invocation asked of its collaborators, by kind
Events(x, ev) == {x.trace[i] : i \in {j \in 1..Len(x.trace) : x.trace[j].ev = ev}}
KeyID(x) == Get(x.arg.metadata, "key_id")
NoKeyID(x) == x.arg.metadata.isNil \/ KeyID(x) = <<>>

\* C1: a Destroy whose delete the registry answers with "not found" returns
\* no error.
C1_NotFoundIsSuccess ==
    \A p \in Procs :
        LET x == calls[p]
        IN  ( /\ x.flow = "Destroy"
              /\ \E e \in Events(x, "DeleteKey") :
                     ~e.resp.isNil /\ e.resp.StatusCode = StatusNotFound )
            => x.pc = "done" /\ x.ret.err = <<>>

C1_Witness ==
    \E p \in Procs :
        /\ calls[p].flow = "Destroy" /\ calls[p].pc = "done"
        /\ calls[p].arg.config.valid
        /\ KeyID(calls[p]) = <<"9">>
        /\ \E e \in Events(calls[p], "DeleteKey") :
               e.id = 9 /\ e.resp = Response(StatusNotFound) /\ e.failed
        /\ calls[p].ret.err = <<>>

\* C2: a Destroy whose delete fails otherwise than with "not found" (another
\* status, or an error with no response at all) returns a non-nil error: it
\* neither reports success nor ends abnormally.
C2_DeleteFailureIsError ==
    \A p \in Procs :
        LET x == calls[p]
        IN  ( /\ x.flow = "Destroy"
              /\ \E e \in Events(x, "DeleteKey") :
                     e.failed /\ (e.resp.isNil \/ e.resp.StatusCode # StatusNotFound) )
            => x.pc = "done" /\ x.ret.err # <<>>

\* C3, as claimed: for a resource whose metadata is absent, or has no key_id or
\* an empty one, Destroy returns no error and makes no token exchange and no
\* delete call.
C3_NoKeyIDIsSuccess ==
    \A p \in Procs :
        LET x == calls[p]
        IN  (x.flow = "Destroy" /\ NoKeyID(x))
            => x.pc = "done" /\ x.ret.err = <<>> /\ x.trace = <<>>

\* C3, amended: for such a resource Destroy makes no token exchange and no
\* delete call, and returns no error when the resource's config decodes.
C3_NoKeyIDIsNoOp ==
    \A p \in Procs :
        LET x == calls[p]
        IN  (x.flow = "Destroy" /\ NoKeyID(x))
            => /\ x.pc = "done" /\ x.trace = <<>>
               /\ x.arg.config.valid => x.ret.err = <<>>

C3_Witness ==
    \E p \in Procs :
        /\ calls[p].flow = "Destroy" /\ calls[p].pc = "done"
        /\ calls[p].arg.metadata.isNil /\ calls[p].arg.config.valid
        /\ calls[p].ret.err = <<>> /\ calls[p].trace = <<>>

\* C4: for a resource whose key_id is not empty and does not parse as a decimal
\* integer, Destroy returns a non-nil error and makes no token exchange and no
\* delete call.
C4_BadKeyIDIsError ==
    \A p \in Procs :
        LET x == calls[p]
        IN  ( /\ x.flow = "Destroy" /\ ~x.arg.metadata.isNil
              /\ KeyID(x) # <<>> /\ ParseInt(KeyID(x)).err # <<>> )
            => x.pc = "done" /\ x.ret.err # <<>> /\ x.trace = <<>>

C4_Witness ==
    \E p \in Procs :
        /\ calls[p].flow = "Destroy" /\ calls[p].pc = "done"
        /\ calls[p].arg.config.valid
        /\ KeyID(calls[p]) = <<"x">>
        /\ calls[p].ret.err # <<>> /\ calls[p].trace = <<>>

IsCreate(x) == x.flow \in {"Create", "createAccessToken", "createDeployKey"}
NoResult(x) == x.ret.creds = <<>> /\ x.ret.metadata.isNil

\* C5: when the token exchange of a deploy-key Create fails, that invocation
\* generates no key pair and makes no registration call, and returns a non-nil
\* error with no credentials and no metadata.
C5_ExchangeFailureStopsDeployKey ==
    \A p \in Procs :
        LET x == calls[p]
        IN  (x.flow = "createDeployKey" /\ \E e \in Events(x, "exchange") : ~e.ok)
            => /\ x.pc = "done"
               /\ Events(x, "keygen") = {} /\ x.privateKey = NoKey
               /\ Events(x, "CreateKey") = {}
               /\ x.ret.err # <<>> /\ NoResult(x)

C5_Witness ==
    \E p \in Procs :
        /\ calls[p].flow = "createDeployKey" /\ calls[p].pc = "done"
        /\ \E e \in Events(calls[p], "exchange") :
               ~e.ok /\ e.perms = AdministratorPermissions /\ e.owner = "acme"
        /\ Len(calls[p].trace) = 1
        /\ calls[p].ret.err # <<>> /\ NoResult(calls[p])

\* C6: for a request whose type is neither AccessToken nor DeployKey, Create
\* returns a non-nil error, no credentials and no metadata, and makes no token
\* exchange, no key generation and no registry call.
C6_UnknownTypeIsError ==
    \A p \in Procs :
        LET x == calls[p]
        IN  (IsCreate(x) /\ x.arg.type \notin {GithubAccessToken, GithubDeployKey})
            => /\ x.pc = "done" /\ x.ret.err # <<>> /\ NoResult(x)
               /\ x.trace = <<>>

C6_Witness ==
    \E p \in Procs :
        /\ IsCreate(calls[p]) /\ calls[p].pc = "done"
        /\ calls[p].arg.type = "aws:sts" /\ calls[p].arg.config.valid
        /\ calls[p].arg.config.owner = "acme"
        /\ calls[p].ret.err # <<>> /\ NoResult(calls[p])
        /\ calls[p].trace = <<>>

\* the rotation interval New configures: 7 days unless an option overrides it
ConfiguredInterval ==
    IF options = <<>> THEN 7 * 24 * Hour ELSE options[Len(options)].duration

\* C7: a deploy-key Create whose exchange, key generation and registration
\* succeed returns exactly one credential, named "<repository>-deploy-key",
\* whose value is the private key of the pair whose public half went to the
\* registry with the request's title and readOnly; metadata exactly
\* {key_id: the decimal string of the assigned id}; and an expiration of the
\* registry's creation time plus the configured rotation interval.
C7_DeployKeyResult ==
    \A p \in Procs :
        LET x == calls[p]
        IN  x.flow = "createDeployKey" =>
            /\ \A e \in Events(x, "CreateKey") : e.ok =>
                   /\ x.pc = "done" /\ x.ret.err = <<>>
                   /\ Len(x.ret.creds) = 1
                   /\ x.ret.creds[1].Name = x.arg.config.repository \o "-deploy-key"
                   /\ x.ret.creds[1].Value.kind = "RSA PRIVATE KEY"
                   /\ e.key.Key.kind = "ssh-rsa"
                   /\ e.key.Key.n = x.ret.creds[1].Value.n
                   /\ e.owner = x.arg.config.owner
                   /\ e.repo = x.arg.config.repository
                   /\ e.key.Title = x.arg.config.title
                   /\ e.key.ReadOnly = x.arg.config.read_only
                   /\ x.ret.metadata = Metadata({<<"key_id", Itoa(e.id)>>})
                   /\ x.ret.creds[1].Expiration.t = e.created_at.t + ConfiguredInterval
            /\ (x.pc = "done" /\ x.ret.err = <<>>)
                   => \E e \in Events(x, "CreateKey") : e.ok

C7_Witness ==
    \E p \in Procs :
        /\ calls[p].flow = "createDeployKey" /\ calls[p].pc = "done"
        /\ calls[p].ret.err = <<>>
        /\ options = <<>>
        /\ calls[p].arg.config = Config("acme", "app", "ci", TRUE)
        /\ calls[p].ret.creds[1].Name = "app-deploy-key"
        /\ calls[p].ret.metadata = Metadata({<<"key_id", <<"9">>>>})
        /\ calls[p].ret.creds[1].Expiration.t = 10 + 168
        /\ \E k \in registry : k.ID = 9 /\ k.Title = "ci" /\ k.ReadOnly

\* C8: an access-token Create for owner o whose exchange succeeds with (token,
\* expiration) returns exactly one credential, named "<o>-access-token", with
\* that token and that expiration, no metadata, and calls no registry; when
\* the exchange fails it returns a non-nil error and no credentials.
C8_AccessTokenResult ==
    \A p \in Procs :
        LET x == calls[p]
        IN  x.flow = "createAccessToken" =>
            \A e \in Events(x, "exchange") :
                /\ x.pc = "done"
                /\ e.owner = x.arg.config.owner
                /\ Events(x, "CreateKey") = {} /\ Events(x, "DeleteKey") = {}
                /\ e.ok =>
                       /\ x.ret.err = <<>>
                       /\ Len(x.ret.creds) = 1
                       /\ x.ret.creds[1].Name = x.arg.config.owner \o "-access-token"
                       /\ x.ret.creds[1].Value = e.token
                       /\ x.ret.creds[1].Expiration = e.expiration
                       /\ x.ret.metadata.isNil
                /\ ~e.ok => x.ret.err # <<>> /\ x.ret.creds = <<>>

C8_Witness ==
    \E p \in Procs :
        /\ calls[p].flow = "createAccessToken" /\ calls[p].pc = "done"
        /\ calls[p].ret.err = <<>>
        /\ calls[p].ret.creds[1].Name = "acme-access-token"
        /\ calls[p].ret.creds[1].Value.kind = "token"
        /\ calls[p].ret.creds[1].Expiration \in Times
        /\ calls[p].ret.metadata.isNil

DestroyedID(d) == ParseInt(Get(d.metadata, "key_id")).n

\* C9, as claimed: once Destroy has returned success for a resource whose
\* metadata carries a key_id that a successful Create returned, that key is not
\* registered.
C9_DestroyedIsAbsent ==
    \A d \in destroyed : \A k \in registry : k.ID # DestroyedID(d)

\* C9, amended: that holds when the resource's config names the owner and the
\* repository of the Create that returned the key_id.
C9_DestroyedUnderItsRepoIsAbsent ==
    \A d \in destroyed :
        (\E r \in returned :
             /\ r.metadata = d.metadata
             /\ r.config.owner = d.config.owner
             /\ r.config.repository = d.config.repository)
        => \A k \in registry : k.ID # DestroyedID(d)

C9_Witness ==
    \E p \in Procs :
        /\ calls[p].flow = "Destroy" /\ calls[p].pc = "done"
        /\ calls[p].ret.err = <<>>
        /\ calls[p].arg \in destroyed
        /\ \E r \in returned :
               r.metadata = calls[p].arg.metadata /\ r.config = calls[p].arg.config
        /\ \E e \in Events(calls[p], "DeleteKey") : e.resp = Response(204)
        /\ registry = {}

RegistryCalls(x) ==
    {i \in 1..Len(x.trace) : x.trace[i].ev \in {"CreateKey", "DeleteKey"}}
ExchangeCalls(x) == {i \in 1..Len(x.trace) : x.trace[i].ev = "exchange"}

\* C11: every invocation makes at most one token exchange and at most one
\* call to the registry (no retry); a call to the registry comes only after a
\* successful exchange of the same invocation and carries exactly the token
\* that exchange returned, which is a token of this invocation, not of an
\* earlier one.
C11_OneExchangeOneRegistryCall ==
    \A p \in DOMAIN calls :
        LET x == calls[p]
        IN  /\ Cardinality(ExchangeCalls(x)) <= 1
            /\ Cardinality(RegistryCalls(x)) <= 1
            /\ \A i \in RegistryCalls(x) :
                   /\ \E j \in ExchangeCalls(x) :
                          /\ j < i
                          /\ x.trace[j].ok
                          /\ x.trace[i].token = x.trace[j].token
                   /\ x.trace[i].token.kind = "token"
                   /\ x.trace[i].token.n = x.n
            /\ (\E j \in ExchangeCalls(x) : ~x.trace[j].ok)
                   => x.pc = "done" /\ RegistryCalls(x) = {}

\* the second invocation of a provider deletes with the token of its own
\* exchange, after an earlier invocation obtained another token
C11_Witness ==
    \E p \in DOMAIN calls :
        /\ calls[p].flow = "Destroy" /\ calls[p].n = 2
        /\ Len(calls[p].trace) = 2
        /\ calls[p].trace[1].ev = "exchange" /\ calls[p].trace[1].ok
        /\ calls[p].trace[2].ev = "DeleteKey"
        /\ calls[p].trace[2].token = calls[p].trace[1].token
        /\ calls[p].trace[2].token.n = 2
        /\ returned # {}

\* the values of the credentials an invocation returned
Values(x) == {x.ret.creds[i].Value : i \in 1..Len(x.ret.creds)}
IsAdminToken(v) == v.kind = "token" /\ v.perms = AdministratorPermissions

\* C12: the administrator profile (administration:write, metadata:read) is
\* asked for only by the deploy-key Create and by Destroy; the access-token
\* Create always asks for the automation profile (metadata:read,
\* contents:read, pull_requests:write, statuses:write); no credential value
\* Create returns is a token exchanged with the administrator profile.
C12_AdminTokenNeverReturned ==
    \A p \in DOMAIN calls :
        LET x == calls[p]
        IN  /\ \A e \in Events(x, "exchange") :
                   /\ e.perms = AdministratorPermissions
                          => x.flow \in {"createDeployKey", "Destroy"}
                   /\ x.flow = "createAccessToken"
                          => e.perms = { <<"metadata", "read">>,
                                         <<"contents", "read">>,
                                         <<"pull_requests", "write">>,
                                         <<"statuses", "write">> }
                   /\ x.flow \in {"createDeployKey", "Destroy"}
                          => e.perms = { <<"administration", "write">>,
                                         <<"metadata", "read">> }
                   /\ e.ok => e.token.perms = e.perms
            /\ \A v \in Values(x) :
                   /\ ~IsAdminToken(v)
                   /\ v # x.adminToken
                   /\ \A e \in Events(x, "exchange") :
                          e.perms = AdministratorPermissions => v # e.token
            /\ \A e \in Events(x, "CreateKey") \cup Events(x, "DeleteKey") :
                   IsAdminToken(e.token)

\* the second invocation returns an automation token after an earlier
\* deploy-key Create exchanged an administrator token and returned a key
C12_Witness ==
    \E p \in DOMAIN calls :
        /\ calls[p].flow = "createAccessToken" /\ calls[p].pc = "done"
        /\ calls[p].n = 2
        /\ \E v \in Values(calls[p]) :
               v.kind = "token" /\ v.perms = AutomationPermissions
        /\ returned # {}

\* the tokens and private keys an invocation holds or has returned
Secrets(x) ==
    { v \in {x.adminToken, x.privateKey}
            \cup {e.token : e \in Events(x, "exchange")}
            \cup Values(x) : v.kind # "" }

\* C13: no part of an error returned by Create or Destroy is the text of a
\* credential value: of an exchanged token, of an administrator token or of
\* a generated private key, of any invocation, on any failure path.
C13_NoSecretInError ==
    \A p \in DOMAIN calls : \A q \in DOMAIN calls :
        \A i \in 1..Len(calls[p].ret.err) :
            \A v \in Secrets(calls[q]) :
                calls[p].ret.err[i] # Text(v)

\* a deploy-key Create fails at the registration, when it holds both an
\* administrator token and a private key
C13_Witness ==
    \E p \in DOMAIN calls :
        /\ calls[p].flow = "createDeployKey" /\ calls[p].pc = "done"
        /\ calls[p].ret.err # <<>>
        /\ calls[p].adminToken.kind = "token"
        /\ calls[p].privateKey.kind = "RSA PRIVATE KEY"
        /\ Text(calls[p].adminToken) = "token#" \o Decimal(calls[p].n)
        /\ Cardinality(Secrets(calls[p])) = 2
        /\ \E e \in Events(calls[p], "CreateKey") : ~e.ok

\* One step of an invocation run alone: the code's step for the next answer
\* e of a collaborator, with no other invocation and a registry that holds
\* what the answer implies (the key a delete removed, and nothing else).
AloneStep(call, e) ==
    CASE e.ev = "exchange" ->
             LET out == [ok |-> e.ok, expiration |-> e.expiration]
             IN  CASE call.flow = "createAccessToken" ->
                          createAccessToken_exchange(call, out)
                   [] call.flow = "createDeployKey" ->
                          createDeployKey_exchange(call, out)
                   [] OTHER -> Destroy_exchange(call, out)
      [] e.ev = "keygen" ->
             createDeployKey_keygen(call,
                 CHOOSE out \in KeyGenOutcomes :
                     generateKeyPair(call.n, out).err = e.err)
      [] e.ev = "CreateKey" ->
             createDeployKey_register(call, New(options).keyRotationInterval, {},
                 e.id, [ok |-> e.ok, created_at |-> e.created_at]).call
      [] OTHER ->
             LET removed == ~e.resp.isNil /\ e.resp.StatusCode = 204
                 reg == IF removed
                        THEN {[ID |-> e.id, Owner |-> e.owner, Repo |-> e.repo,
                               Key |-> NoKey, Title |-> "", ReadOnly |-> FALSE,
                               CreatedAt |-> ZeroTime]}
                        ELSE {}
                 out == IF e.resp.isNil THEN "transport-error"
                        ELSE IF e.resp.StatusCode \in {204, StatusNotFound}
                        THEN "served"
                        ELSE "status-error"
             IN  Destroy_delete(call, reg, out).call

RECURSIVE AloneFrom(_, _, _)
AloneFrom(call, answers, i) ==
    IF i > Len(answers) THEN call
    ELSE AloneFrom(AloneStep(call, answers[i]), answers, i + 1)

\* the invocation x run alone on a provider just constructed from the same
\* options, against the answers x got
Alone(x) ==
    AloneFrom(IF x.flow = "Destroy" THEN Destroy(x.arg, x.n) ELSE Create(x.arg, x.n),
              x.trace, 1)

\* what an invocation did to the registry: the keys it added and removed
Effects(x) ==
    {<<"add", e.owner, e.repo, e.id, e.key>> :
         e \in {f \in Events(x, "CreateKey") : f.ok}}
    \cup {<<"remove", e.owner, e.repo, e.id>> :
              e \in {f \in Events(x, "DeleteKey") :
                         ~f.resp.isNil /\ f.resp.StatusCode = 204}}

IndependentOfOthers ==
    \A p \in DOMAIN calls :
        calls[p].flow # "" =>
            /\ Alone(calls[p]) = calls[p]
            /\ Alone(calls[p]).ret = calls[p].ret
            /\ Effects(Alone(calls[p])) = Effects(calls[p])

\* C14: concurrent invocations on one provider are independent: no step
\* writes a field of the provider after its construction, and in every
\* interleaving each invocation is, result and calls on the registry alike,
\* what it is when run alone against the same answers.
C14_ConcurrentCallsIndependent ==
    /\ []IndependentOfOthers
    /\ [][keyRotationInterval' = keyRotationInterval /\ options' = options]_vars

\* both callers are inside a deploy-key Create at once, one finished and one
\* under way, and the finished one returned its key
C14_Witness ==
    /\ calls["c1"].flow = "createDeployKey" /\ calls["c1"].pc = "register"
    /\ calls["c2"].flow = "createDeployKey" /\ calls["c2"].pc = "done"
    /\ calls["c2"].n > calls["c1"].n
    /\ calls["c2"].ret.err = <<>>
    /\ Len(calls["c2"].ret.creds) = 1
    /\ Cardinality(registry) = 2

\* the value of the model an int64 is, when it has one
Narrow(x) == x[1] + Limb * x[2]
IsNarrow(x) == x[3] = 0 /\ x[4] = 0 /\ x[2] < Limb \div 2

\* C15: for every id the registry can assign, ids beyond 32 bits included,
\* the key_id Create writes is a non-empty string that Destroy parses
\* without error to exactly that id; the conversions of the model's values
\* are these conversions.
C15_KeyIDRoundTrip ==
    /\ roundTrip.pc \in {"none", "assigned", "written", "parsed"}
    /\ roundTrip.pc \in {"written", "parsed"} =>
           /\ roundTrip.key_id # <<>>
           /\ IsNarrow(roundTrip.id) =>
                  /\ roundTrip.key_id = Itoa(ToInt(Narrow(roundTrip.id)))
                  /\ ToL(ParseInt(roundTrip.key_id).n) = roundTrip.id
    /\ roundTrip.pc = "parsed" =>
           /\ roundTrip.parsed.err = <<>>
           /\ roundTrip.parsed.n = roundTrip.id

\* the id 4294967305 = 2^32 + 9 has made the round trip
C15_Witness ==
    /\ roundTrip.pc = "parsed"
    /\ roundTrip.id = <<9, 0, 1, 0>>
    /\ roundTrip.key_id = <<"4", "2", "9", "4", "9", "6", "7", "3", "0", "5">>
    /\ roundTrip.parsed = [n |-> <<9, 0, 1, 0>>, err |-> <<>>]

\* the key of the earlier run is still registered
PriorKeyRegistered ==
    \E k \in registry :
        /\ k.ID = FirstID
        /\ k.Owner = PriorRequest.config.owner
        /\ k.Repo = PriorRequest.config.repository

\* x is a Destroy of the key of the earlier run that the registry has answered
AnsweredDestroyOfPrior(x) ==
    /\ x.flow = "Destroy" /\ x.arg = PriorResource
    /\ \E e \in Events(x, "DeleteKey") :
           ~e.resp.isNil /\ e.resp.StatusCode \in {204, StatusNotFound}

\* C16: Destroy calls on the same registered key, one after the other or
\* interleaved in any way, whose exchanges succeed and whose deletes the
\* registry answers (the losing one with "not found"), all return no error,
\* and the key is then absent.
C16_DestroyTwiceIsSuccess ==
    \A p \in DOMAIN calls :
        AnsweredDestroyOfPrior(calls[p]) =>
            /\ calls[p].pc = "done"
            /\ calls[p].ret.err = <<>>
            /\ ~PriorKeyRegistered

\* two overlapping Destroy calls on the key: the one started first lost the
\* delete to the one started second, and both have returned no error
C16_Witness ==
    /\ AnsweredDestroyOfPrior(calls["c1"]) /\ AnsweredDestroyOfPrior(calls["c2"])
    /\ calls["c1"].n < calls["c2"].n
    /\ \E e \in Events(calls["c1"], "DeleteKey") :
           e.resp = Response(StatusNotFound) /\ e.failed
    /\ \E e \in Events(calls["c2"], "DeleteKey") : e.resp = Response(204)
    /\ calls["c1"].ret.err = <<>> /\ calls["c2"].ret.err = <<>>
    /\ calls["c1"].pc = "done" /\ calls["c2"].pc = "done"
    /\ registry = {}

\* the key k was returned: some successful Create gave its id, under its
\* owner and repository, to its caller
WasReturned(k) ==
    \E r \in returned :
        /\ ~r.metadata.isNil
        /\ Get(r.metadata, "key_id") = Itoa(k.ID)
        /\ r.config.owner = k.Owner
        /\ r.config.repository = k.Repo

\* C17: no orphaned keys: every key in the registry has had its key_id
\* returned in the metadata of the Create that registered it, as soon as it
\* is registered; a Create that returns an error has registered no key.
C17_NoOrphanedKeys ==
    /\ \A k \in registry : WasReturned(k)
    /\ \A p \in DOMAIN calls :
           LET x == calls[p]
           IN  /\ \A e \in Events(x, "CreateKey") :
                      e.ok => /\ x.pc = "done" /\ x.ret.err = <<>>
                              /\ ~x.ret.metadata.isNil
                              /\ Get(x.ret.metadata, "key_id") = Itoa(e.id)
               /\ (IsCreate(x) /\ x.pc = "done" /\ x.ret.err # <<>>) =>
                      /\ \A e \in Events(x, "CreateKey") : ~e.ok
                      /\ \A k \in registry : k.Key.n # x.n

\* a deploy-key Create fails at the registration while the key of an earlier
\* Create, whose id was returned, is registered
C17_Witness ==
    \E p \in DOMAIN calls :
        /\ calls[p].flow = "createDeployKey" /\ calls[p].pc = "done"
        /\ calls[p].n = 2
        /\ calls[p].ret.err = <<"create deploy key: ", "POST keys: 422">>
        /\ calls[p].publicKey.kind = "ssh-rsa"
        /\ Cardinality(registry) = 1
        /\ \E k \in registry : k.Key.n = 1 /\ k.ID = FirstID /\ WasReturned(k)

\* the steps of the handler's invocation so far, in order
Steps == [i \in 1..Len(lambda.log) |-> lambda.log[i].step]
HandlerOrder == <<"loadConfig", "Load", "Process", "Save">>
LoadsSucceeded ==
    /\ Len(lambda.log) >= 2
    /\ lambda.log[1].err = <<>> /\ lambda.log[2].err = <<>>

\* C18: in each invocation of the Lambda handler the steps run in the order
\* load config, load state, Process, Save; when both loads succeeded the
\* state is saved exactly once, after Process, also when Process returned an
\* error; Save is not called when a load failed; the handler returns the
\* error of Process, so never the error of Save.
C18_HandlerOrder ==
    /\ Len(lambda.log) <= Len(HandlerOrder)
    /\ \A i \in 1..Len(lambda.log) : Steps[i] = HandlerOrder[i]
    /\ \A i \in 1..Len(lambda.log) :
           lambda.log[i].err # <<>> /\ i <= 2 => Len(lambda.log) = i
    /\ lambda.pc \in {"returned", "panicked"} =>
           IF LoadsSucceeded
           THEN /\ Steps = HandlerOrder
                /\ lambda.log[4].arg = lambda.event.StatePath
                /\ lambda.log[4].state = lambda.log[3].state
                /\ lambda.pc = "returned" => lambda.result = lambda.log[3].err
           ELSE /\ lambda.pc = "returned"
                /\ lambda.result = lambda.log[Len(lambda.log)].err
                /\ lambda.result # <<>>
    /\ lambda.pc \in {"Process", "deferred"} => LoadsSucceeded
    /\ lambda.pc = "deferred" => Len(lambda.log) = 3

\* Process returned an error and the Save after it failed too: the handler
\* has returned the error of Process
C18_Witness ==
    /\ lambda.pc = "returned"
    /\ Steps = HandlerOrder
    /\ lambda.log[3].err = <<"process ", "team-a">>
    /\ lambda.log[3].state.version = 1
    /\ lambda.log[4].err = <<"save state: ", "a/state.json">>
    /\ lambda.result = <<"process ", "team-a">>

====
